---- MODULE Spec2Model ----
(***************************************************************************)
(* Model of digital_twin_providers/common/src/utils.rs: the Chariott       *)
(* registry resolver, the Ibeji capability-matching resolver, the address  *)
(* normalizer get_uri and the helper is_subset.                            *)
(*                                                                         *)
(* Strings that the code inspects character by character (URIs, the        *)
(* gateway and the alias) are sequences of one-character strings.  Strings *)
(* that the code only compares for equality are TLA+ strings.  An          *)
(* Option<T> is a sequence of length 0 (None) or 1 (Some).                 *)
(***************************************************************************)
EXTENDS Naturals, Sequences, FiniteSets

VARIABLES
    containerize,   \* is the crate built with feature "containerize"?
    env,            \* the process environment: variable name -> Option<string>
    registry,       \* Chariott's answer to Discover: Option<service record>
    directory,      \* Ibeji's answer to FindById: Option<endpoint_info_list>
    call,           \* the resolver invocations: id -> its arguments, position, result
    uri_arg,        \* Option<string>: the argument of a direct get_uri call
    uri_res,        \* the results of get_uri(uri_arg), then get_uri of that result
    sub_arg,        \* the arguments <<subset, superset>> of a direct is_subset call
    sub_res         \* Option<bool>: the result of is_subset

vars == <<containerize, env, registry, directory, call,
          uri_arg, uri_res, sub_arg, sub_res>>

---------------------------------------------------------------------------
(* Bounds *)

MaxLen == 3          \* longest URI / gateway / alias of a direct get_uri call
MaxOps == 3          \* longest operation list of a direct is_subset call
MaxEndpoints == 2    \* longest endpoint_info_list the directory answers with
NumCalls == 2        \* concurrent resolver invocations

Chars == {"a", "b"}
OpNames == {"get", "set", "invoke"}

SeqsUpTo(S, n) == UNION {[1..k -> S] : k \in 0..n}

Strs == SeqsUpTo(Chars, MaxLen)
OpSeqs == SeqsUpTo(OpNames, MaxOps)

---------------------------------------------------------------------------
(* Option and Result *)

None == <<>>
Some(x) == <<x>>
IsSome(o) == Len(o) = 1
Option(S) == {None} \cup {Some(x) : x \in S}

Ok(v) == [ok |-> TRUE, value |-> v]
Err(e) == [ok |-> FALSE, err |-> e]

\* A message: the text of the string literal and the values a format! call
\* interpolates into it, in order.  A plain literal interpolates nothing.
Message(f, a) == [fmt |-> f, args |-> a]
\* tonic::Status: a code and a message.
Status(c, m) == [code |-> c, message |-> m]
\* Display of a Status shows its code and its message.
StatusToString(s) == <<s.code, s.message.fmt>> \o s.message.args

---------------------------------------------------------------------------
(* str::replace(from, to): every non-overlapping match of `from`, found    *)
(* left to right, is replaced by `to`; an empty `from` matches at every    *)
(* character boundary.  `i` is the searcher's position and `last_end` the  *)
(* end of the last match, both 0-based.                                    *)

RECURSIVE replace_from(_, _, _, _, _)
replace_from(s, from, to, i, last_end) ==
    IF i + Len(from) > Len(s)
    THEN SubSeq(s, last_end + 1, Len(s))
    ELSE IF SubSeq(s, i + 1, i + Len(from)) = from
         THEN SubSeq(s, last_end + 1, i) \o to
              \o replace_from(s, from, to,
                              IF Len(from) = 0 THEN i + 1 ELSE i + Len(from),
                              i + Len(from))
         ELSE replace_from(s, from, to, i + 1, last_end)

\* A faulty variant: only the first match is replaced (str::replacen(from, to, 1)).
replace_first_only(s, from, to) ==
    LET hits == {i \in 0..Len(s) : i + Len(from) <= Len(s)
                                   /\ SubSeq(s, i + 1, i + Len(from)) = from}
    IN  IF hits = {} THEN s
        ELSE LET i == CHOOSE h \in hits : \A g \in hits : h <= g
             IN  SubSeq(s, 1, i) \o to \o SubSeq(s, i + Len(from) + 1, Len(s))

replace(s, from, to) == replace_from(s, from, to, 0, 0)

---------------------------------------------------------------------------
(* get_uri *)

host_gateway_env_var == "HOST_GATEWAY"
host_alias_env_var == "LOCALHOST_ALIAS"
EnvVars == {host_gateway_env_var, host_alias_env_var}

NotPresent == "environment variable not found"

\* std::env::var(name): the value, or VarError::NotPresent.
env_var(name) == IF IsSome(env[name]) THEN Ok(env[name][1]) ELSE Err(NotPresent)

UnableToGetVar(name, err) ==
    Status("FailedPrecondition",
           Message("Unable to get environment var '{}' with error: {}", <<name, err>>))

\* A faulty variant: the alias and the gateway are passed to replace in the wrong order.
get_uri_swapped(uri) ==
    IF ~containerize THEN Ok(uri)
    ELSE IF ~env_var(host_gateway_env_var).ok
         THEN Err(UnableToGetVar(host_gateway_env_var, env_var(host_gateway_env_var).err))
    ELSE IF ~env_var(host_alias_env_var).ok
         THEN Err(UnableToGetVar(host_alias_env_var, env_var(host_alias_env_var).err))
    ELSE Ok(replace(uri, env_var(host_gateway_env_var).value,
                         env_var(host_alias_env_var).value))

\* A faulty variant: the failed alias lookup is reported under the gateway's name.
get_uri_wrong_name(uri) ==
    IF ~containerize THEN Ok(uri)
    ELSE IF ~env_var(host_gateway_env_var).ok
         THEN Err(UnableToGetVar(host_gateway_env_var, env_var(host_gateway_env_var).err))
    ELSE IF ~env_var(host_alias_env_var).ok
         THEN Err(UnableToGetVar(host_gateway_env_var, env_var(host_alias_env_var).err))
    ELSE Ok(replace(uri, env_var(host_alias_env_var).value,
                         env_var(host_gateway_env_var).value))

get_uri(uri) ==
    IF ~containerize THEN Ok(uri)
    ELSE IF ~env_var(host_gateway_env_var).ok
         THEN Err(UnableToGetVar(host_gateway_env_var, env_var(host_gateway_env_var).err))
    ELSE IF ~env_var(host_alias_env_var).ok
         THEN Err(UnableToGetVar(host_alias_env_var, env_var(host_alias_env_var).err))
    ELSE Ok(replace(uri, env_var(host_alias_env_var).value,
                         env_var(host_gateway_env_var).value))

---------------------------------------------------------------------------
(* is_subset *)

\* A faulty variant: the two slices are compared position by position.
is_subset_positional(subset, superset) ==
    \A i \in 1..Len(subset) : i <= Len(superset) /\ subset[i] = superset[i]

is_subset(subset, superset) ==
    \A i \in 1..Len(subset) :
        \E j \in 1..Len(superset) : subset[i] = superset[j]

---------------------------------------------------------------------------
(* The values the resolvers handle *)

Namespaces == {"sdv.ibeji"}
Names == {"invehicle_digital_twin"}
Versions == {"1.0"}
Kinds == {"grpc+proto", "mqtt_v5"}
References == {"https://github.com/eclipse-ibeji/ibeji", "digital_twin.v1.proto"}
Protocols == {"grpc", "mqtt"}
EntityIds == {"dtmi:sdv:wheelchair;1"}

Uris == {<<"a", "b">>, <<"b">>}
Gateways == {<<"b">>}
Aliases == {<<"a">>}

RequiredOps == {<<>>, <<"get">>, <<"set", "get">>, <<"get", "get">>}
DeclaredOps == {<<>>, <<"get">>, <<"get", "set">>}

\* interfaces::chariott::service_discovery::core::v1::ServiceMetadata
ServiceRecords ==
    [uri : Uris, communication_kind : Kinds, communication_reference : References]

\* interfaces::invehicle_digital_twin::v1::EndpointInfo
EndpointInfos == [uri : Uris, protocol : Protocols, operations : DeclaredOps]
EndpointLists == SeqsUpTo(EndpointInfos, MaxEndpoints)

ChariottArgs ==
    [namespace : Namespaces, name : Names, version : Versions,
     communication_kind : Kinds, communication_reference : References]
IbejiArgs == [entity_id : EntityIds, protocol : Protocols, operations : RequiredOps]

TransportError == "transport error"
Event(o, k) == [op |-> o, ok |-> k]

Range(s) == {s[i] : i \in DOMAIN s}

---------------------------------------------------------------------------
(* discover_service_using_chariott, from the Discover response on *)

ServiceNotFound ==
    Status("NotFound",
           Message("Did not find a service in Chariott with namespace '{namespace}', name '{name}' and version {version}",
                   <<>>))

ServiceMismatch ==
    Status("NotFound",
           Message("Did not find a service in Chariott with namespace '{namespace}', name '{name}' and version {version} that has communication kind '{communication_kind} and communication_reference '{communication_reference}''",
                   <<>>))

Internal(text) == Status("Internal", Message("{}", <<text>>))

discover_service_using_chariott(a, service) ==
    IF ~IsSome(service) THEN Err(ServiceNotFound)
    ELSE IF /\ service[1].communication_kind # a.communication_kind
            /\ service[1].communication_reference # a.communication_reference
         THEN Err(ServiceMismatch)
    ELSE Ok(service[1].uri)

---------------------------------------------------------------------------
(* discover_digital_twin_provider_using_ibeji, from the FindById response on *)

EntityNotFound == Message("Did not find the entity", <<>>)
NoMatchingEndpoint == Message("Did not find an endpoint that met our requirements", <<>>)
ProviderUriFailed(err) ==
    Message("Failed to get provider URI due to error: {}", StatusToString(err))

\* A faulty variant: the protocol is not compared.
meets_requirements_any_protocol(endpoint_info, protocol, operations) ==
    is_subset(operations, endpoint_info.operations)

\* The closure given to find.
meets_requirements(endpoint_info, protocol, operations) ==
    /\ endpoint_info.protocol = protocol
    /\ is_subset(operations, endpoint_info.operations)

\* A faulty variant: the last qualifying endpoint is taken (iter().rev().find, or rfind).
find_last(endpoint_info_list, protocol, operations) ==
    LET hits == {i \in DOMAIN endpoint_info_list :
                    meets_requirements(endpoint_info_list[i], protocol, operations)}
    IN  IF hits = {} THEN None
        ELSE Some(endpoint_info_list[CHOOSE i \in hits : \A j \in hits : j <= i])

\* iter().find(..).cloned(): the first element the closure accepts.
RECURSIVE find_from(_, _, _, _)
find_from(endpoint_info_list, protocol, operations, i) ==
    IF i > Len(endpoint_info_list) THEN None
    ELSE IF meets_requirements(endpoint_info_list[i], protocol, operations)
         THEN Some(endpoint_info_list[i])
         ELSE find_from(endpoint_info_list, protocol, operations, i + 1)

find(endpoint_info_list, protocol, operations) ==
    find_from(endpoint_info_list, protocol, operations, 1)

\* A faulty variant: a missing entity_access_info is read as an empty endpoint list
\* (unwrap_or_default in place of ok_or_else).
discover_provider_default(a, entity_access_info) ==
    LET list == IF IsSome(entity_access_info) THEN entity_access_info[1] ELSE <<>>
        found == find(list, a.protocol, a.operations)
    IN  IF ~IsSome(found) THEN Err(NoMatchingEndpoint)
        ELSE IF ~get_uri(found[1].uri).ok
             THEN Err(ProviderUriFailed(get_uri(found[1].uri).err))
        ELSE Ok([found[1] EXCEPT !.uri = get_uri(found[1].uri).value])

discover_digital_twin_provider_using_ibeji(a, entity_access_info) ==
    IF ~IsSome(entity_access_info) THEN Err(EntityNotFound)
    ELSE LET found == find(entity_access_info[1], a.protocol, a.operations)
         IN  IF ~IsSome(found) THEN Err(NoMatchingEndpoint)
             ELSE IF ~get_uri(found[1].uri).ok
                  THEN Err(ProviderUriFailed(get_uri(found[1].uri).err))
             ELSE Ok([found[1] EXCEPT !.uri = get_uri(found[1].uri).value])

---------------------------------------------------------------------------
(* The resolver invocations.  A call suspends at its two awaits only: the   *)
(* connect and the unary RPC.  What follows the RPC's answer runs to the    *)
(* end of the function in one step.                                         *)

Start(f, a) == [fn |-> f, args |-> a, pc |-> "start", net |-> <<>>, result |-> None]

\* A faulty variant: a failed connect is tried again.
retry_after_connect_error == "start"

\* `?` on the connect's error returns from the function.
after_connect_error == "done"

ConnectError(f) == IF f = "chariott" THEN Internal(TransportError)
                   ELSE Message("{}", <<TransportError>>)
CallError(f) == IF f = "chariott" THEN Internal(TransportError)
                ELSE Message("{}", <<TransportError>>)

Connect(c) ==
    /\ call[c].pc = "start"
    /\ call' = [call EXCEPT ![c].pc = "connected",
                            ![c].net = Append(@, Event("connect", TRUE))]
    /\ UNCHANGED <<containerize, env, registry, directory,
                   uri_arg, uri_res, sub_arg, sub_res>>

ConnectFail(c) ==
    /\ call[c].pc = "start"
    /\ call' = [call EXCEPT ![c].pc = after_connect_error,
                            ![c].net = Append(@, Event("connect", FALSE)),
                            ![c].result = Some(Err(ConnectError(call[c].fn)))]
    /\ UNCHANGED <<containerize, env, registry, directory,
                   uri_arg, uri_res, sub_arg, sub_res>>

Discover(c) ==
    /\ call[c].fn = "chariott"
    /\ call[c].pc = "connected"
    /\ call' = [call EXCEPT
                  ![c].pc = "done",
                  ![c].net = Append(@, Event("discover", TRUE)),
                  ![c].result = Some(discover_service_using_chariott(call[c].args, registry))]
    /\ UNCHANGED <<containerize, env, registry, directory,
                   uri_arg, uri_res, sub_arg, sub_res>>

DiscoverFail(c) ==
    /\ call[c].fn = "chariott"
    /\ call[c].pc = "connected"
    /\ call' = [call EXCEPT ![c].pc = "done",
                            ![c].net = Append(@, Event("discover", FALSE)),
                            ![c].result = Some(Err(CallError("chariott")))]
    /\ UNCHANGED <<containerize, env, registry, directory,
                   uri_arg, uri_res, sub_arg, sub_res>>

FindById(c) ==
    /\ call[c].fn = "ibeji"
    /\ call[c].pc = "connected"
    /\ call' = [call EXCEPT
                  ![c].pc = "done",
                  ![c].net = Append(@, Event("find_by_id", TRUE)),
                  ![c].result =
                      Some(discover_digital_twin_provider_using_ibeji(call[c].args, directory))]
    /\ UNCHANGED <<containerize, env, registry, directory,
                   uri_arg, uri_res, sub_arg, sub_res>>

FindByIdFail(c) ==
    /\ call[c].fn = "ibeji"
    /\ call[c].pc = "connected"
    /\ call' = [call EXCEPT ![c].pc = "done",
                            ![c].net = Append(@, Event("find_by_id", FALSE)),
                            ![c].result = Some(Err(CallError("ibeji")))]
    /\ UNCHANGED <<containerize, env, registry, directory,
                   uri_arg, uri_res, sub_arg, sub_res>>

---------------------------------------------------------------------------
(* Direct calls of the two synchronous functions *)

GetUri ==
    /\ uri_arg # <<>>
    /\ Len(uri_res) = 0
    /\ uri_res' = <<get_uri(uri_arg[1])>>
    /\ UNCHANGED <<containerize, env, registry, directory, call,
                   uri_arg, sub_arg, sub_res>>

\* The caller passes a normalized URI to get_uri once more.
GetUriAgain ==
    /\ Len(uri_res) = 1
    /\ uri_res[1].ok
    /\ uri_res' = Append(uri_res, get_uri(uri_res[1].value))
    /\ UNCHANGED <<containerize, env, registry, directory, call,
                   uri_arg, sub_arg, sub_res>>

IsSubset ==
    /\ sub_res = None
    /\ sub_res' = Some(is_subset(sub_arg[1], sub_arg[2]))
    /\ UNCHANGED <<containerize, env, registry, directory, call,
                   uri_arg, uri_res, sub_arg>>

---------------------------------------------------------------------------
(* Specifications *)

NoIsSubsetCall == sub_arg = <<<<>>, <<>>>> /\ sub_res = None

ResolverEnv ==
    /\ containerize \in BOOLEAN
    /\ env \in [EnvVars -> Option(Gateways \cup Aliases)]
    /\ env[host_gateway_env_var] \in Option(Gateways)
    /\ env[host_alias_env_var] \in Option(Aliases)

\* One invocation of one of the three public functions, against every
\* registry or directory content.
Init ==
    /\ ResolverEnv
    /\ \/ /\ call \in [{1} -> {Start("chariott", a) : a \in ChariottArgs}]
          /\ registry \in Option(ServiceRecords)
          /\ directory = None
          /\ uri_arg = None
       \/ /\ call \in [{1} -> {Start("ibeji", a) : a \in IbejiArgs}]
          /\ registry = None
          /\ directory \in Option(EndpointLists)
          /\ uri_arg = None
       \/ /\ call = <<>>
          /\ registry = None
          /\ directory = None
          /\ uri_arg \in {Some(u) : u \in Uris}
    /\ uri_res = <<>>
    /\ NoIsSubsetCall

Next ==
    \/ \E c \in DOMAIN call : Connect(c)
    \/ \E c \in DOMAIN call : ConnectFail(c)
    \/ \E c \in DOMAIN call : Discover(c)
    \/ \E c \in DOMAIN call : DiscoverFail(c)
    \/ \E c \in DOMAIN call : FindById(c)
    \/ \E c \in DOMAIN call : FindByIdFail(c)
    \/ GetUri

Spec == Init /\ [][Next]_vars

\* NumCalls resolver invocations and a direct get_uri call in flight together,
\* against one registry and one directory.
ConcurrentArgs ==
    {Start("chariott", a) : a \in {x \in ChariottArgs : x.communication_kind = "grpc+proto"}}
    \cup {Start("ibeji", a) : a \in {x \in IbejiArgs : x.operations = <<"get">>}}

InitConcurrent ==
    /\ containerize = TRUE
    /\ env \in [EnvVars -> Option(Gateways \cup Aliases)]
    /\ env[host_gateway_env_var] = Some(<<"b">>)
    /\ env[host_alias_env_var] \in Option(Aliases)
    /\ uri_arg = Some(<<"a", "b">>)
    /\ uri_res = <<>>
    /\ call \in [1..NumCalls -> ConcurrentArgs]
    /\ registry \in {None} \cup {Some(s) : s \in {x \in ServiceRecords : x.uri = <<"a", "b">>}}
    /\ directory \in {None, Some(<<>>)}
                     \cup {Some(<<e>>) : e \in {x \in EndpointInfos :
                                                  /\ x.uri = <<"a", "b">>
                                                  /\ x.operations = <<"get", "set">>}}
    /\ NoIsSubsetCall

SpecConcurrent == InitConcurrent /\ [][Next]_vars

\* get_uri called directly, and once more on its own result.
ExampleUri ==
    <<"h","t","t","p",":","/","/","l","o","c","a","l","h","o","s","t",":","8","0","8","0","/","x">>
ExampleAlias == <<"l","o","c","a","l","h","o","s","t">>
ExampleGateway == <<"1","0",".","0",".","0",".","1">>

InitGetUri ==
    /\ containerize \in BOOLEAN
    /\ \/ /\ env \in [EnvVars -> Option(Strs)]
          /\ uri_arg \in {Some(u) : u \in Strs}
       \/ /\ env = [v \in EnvVars |-> IF v = host_gateway_env_var
                                      THEN Some(ExampleGateway) ELSE Some(ExampleAlias)]
          /\ uri_arg = Some(ExampleUri)
    /\ uri_res = <<>>
    /\ registry = None /\ directory = None /\ call = <<>>
    /\ NoIsSubsetCall

NextGetUri == GetUri \/ GetUriAgain

SpecGetUri == InitGetUri /\ [][NextGetUri]_vars

\* is_subset called directly.
InitSubset ==
    /\ sub_arg \in OpSeqs \X OpSeqs
    /\ sub_res = None
    /\ containerize = FALSE
    /\ env = [v \in EnvVars |-> None]
    /\ registry = None /\ directory = None /\ call = <<>>
    /\ uri_arg = None /\ uri_res = <<>>

NextSubset == IsSubset

SpecSubset == InitSubset /\ [][NextSubset]_vars

---------------------------------------------------------------------------
(* Properties.  What they say is stated without the operators of the model *)
(* above, so that the model decides them.                                  *)

\* `from` occurs in s at the 0-based position i.
OccursAt(from, s, i) ==
    i + Len(from) <= Len(s) /\ SubSeq(s, i + 1, i + Len(from)) = from
Occurs(from, s) == \E i \in 0..Len(s) : OccursAt(from, s, i)

\* r is s with the occurrences of `from` that start at the positions P replaced
\* by `to` and every other character left in place, where P holds the
\* occurrences met reading s left to right: they do not overlap, and an
\* occurrence outside P overlaps one of P that starts before it.
ReplacedAt(s, from, to, r, P) ==
    LET startsBefore(i) == Cardinality({q \in P : q < i})
        startsUpTo(i) == Cardinality({q \in P : q <= i})
        covered(i) == \E q \in P : q <= i /\ i < q + Len(from)
    IN  /\ \A q \in P : OccursAt(from, s, q)
        /\ \A q1, q2 \in P : q1 < q2 => q1 + Len(from) <= q2
        /\ \A i \in 0..Len(s) :
              (OccursAt(from, s, i) /\ i \notin P) =>
                  \E q \in P : q < i /\ i < q + Len(from)
        /\ Len(r) + Cardinality(P) * Len(from) = Len(s) + Cardinality(P) * Len(to)
        /\ \A q \in P :
              LET at == (q + startsBefore(q) * Len(to)) - startsBefore(q) * Len(from)
              IN  SubSeq(r, at + 1, at + Len(to)) = to
        /\ \A i \in 0..(Len(s) - 1) :
              ~covered(i) =>
                  r[(i + startsUpTo(i) * Len(to)) - startsUpTo(i) * Len(from) + 1] = s[i + 1]

IsReplaced(s, from, to, r) ==
    \E P \in SUBSET (0..Len(s)) : ReplacedAt(s, from, to, r, P)

BothSet == IsSome(env[host_gateway_env_var]) /\ IsSome(env[host_alias_env_var])
Missing == {v \in EnvVars : ~IsSome(env[v])}

\* C4: is_subset(A, B) is true exactly when every element of A is an element
\* of B, whatever the order and the multiplicity; is_subset([], B) is true for
\* every B, and is_subset(A, []) is true exactly when A is empty.
C4_IsSubset ==
    IsSome(sub_res) =>
        /\ sub_res[1] = (Range(sub_arg[1]) \subseteq Range(sub_arg[2]))
        /\ sub_arg[1] = <<>> => sub_res[1]
        /\ sub_arg[2] = <<>> => (sub_res[1] = (sub_arg[1] = <<>>))

\* A subset that repeats an element and orders its elements unlike the superset.
C4_Witness ==
    /\ sub_res = Some(TRUE)
    /\ sub_arg[1] = <<"set", "get", "set">>
    /\ sub_arg[2] = <<"get", "invoke", "set">>

\* C6 as stated: normalizing a normalized URI changes nothing, whatever the
\* gateway and the alias are.
C6_Idempotent ==
    Len(uri_res) = 2 => uri_res[2] = uri_res[1]

\* C6, amended: normalizing a normalized URI changes nothing when the crate is
\* built without "containerize", when the alias does not occur in the
\* normalized URI, and when the alias and the gateway are not empty and have
\* no character in common (the alias then never occurs in a normalized URI).
C6_IdempotentWhenAliasGone ==
    Len(uri_res) = 2 =>
        /\ ~containerize => uri_res[2] = uri_res[1]
        /\ (containerize /\ ~Occurs(env[host_alias_env_var][1], uri_res[1].value))
              => uri_res[2] = uri_res[1]
        /\ ( /\ containerize
             /\ env[host_alias_env_var][1] # <<>>
             /\ env[host_gateway_env_var][1] # <<>>
             /\ Range(env[host_alias_env_var][1]) \cap Range(env[host_gateway_env_var][1]) = {} )
              => /\ ~Occurs(env[host_alias_env_var][1], uri_res[1].value)
                 /\ uri_res[2] = uri_res[1]

\* A URI that holds the alias twice has been normalized twice.
C6_Witness ==
    /\ containerize
    /\ Len(uri_res) = 2
    /\ uri_arg = Some(<<"a", "b", "a">>)
    /\ env[host_alias_env_var] = Some(<<"a">>)
    /\ env[host_gateway_env_var] = Some(<<"b", "b">>)
    /\ uri_res[2] = uri_res[1]
    /\ uri_res[1] # Ok(uri_arg[1])

\* C7: without "containerize" get_uri returns its argument, whatever the
\* environment holds; with it and both variables set, it returns the argument
\* with every occurrence of the alias replaced by the gateway and every other
\* character left in place; http://localhost:8080/x becomes
\* http://10.0.0.1:8080/x.
C7_GetUri ==
    Len(uri_res) >= 1 =>
        /\ ~containerize => uri_res[1] = Ok(uri_arg[1])
        /\ (containerize /\ BothSet) =>
              /\ uri_res[1].ok
              /\ IsReplaced(uri_arg[1], env[host_alias_env_var][1],
                            env[host_gateway_env_var][1], uri_res[1].value)
        /\ (containerize /\ uri_arg = Some(ExampleUri)) =>
              uri_res[1] = Ok(<<"h","t","t","p",":","/","/","1","0",".","0",".","0",".","1",
                                ":","8","0","8","0","/","x">>)

\* The alias occurs twice, overlapping itself, and is replaced once.
C7_Witness ==
    /\ containerize
    /\ uri_arg = Some(<<"a", "a", "a">>)
    /\ env[host_alias_env_var] = Some(<<"a", "a">>)
    /\ env[host_gateway_env_var] = Some(<<"b">>)
    /\ Len(uri_res) >= 1
    /\ uri_res[1] = Ok(<<"b", "a">>)

---------------------------------------------------------------------------
(* Properties of the resolvers *)

Done(c) == call[c].pc = "done"
\* The call connected and its RPC was answered.
Answered(c) == Done(c) /\ Len(call[c].net) = 2 /\ call[c].net[2].ok
Outcome(c) == call[c].result[1]

Qualifies(e, a) ==
    e.protocol = a.protocol /\ Range(a.operations) \subseteq Range(e.operations)
Qualifying(list, a) == {i \in DOMAIN list : Qualifies(list[i], a)}
First(S) == CHOOSE i \in S : \A j \in S : i <= j

\* n is what the normalizer makes of uri in this build and environment.
NormalizedUri(uri, n) ==
    /\ ~containerize => n = uri
    /\ containerize =>
          /\ BothSet
          /\ IsReplaced(uri, env[host_alias_env_var][1], env[host_gateway_env_var][1], n)

\* r is a copy of the entry e with nothing but the URI changed, to the normalized URI.
FromEntry(r, e) ==
    /\ r.protocol = e.protocol
    /\ r.operations = e.operations
    /\ NormalizedUri(e.uri, r.uri)

\* C1: when the registry answers with a service record, the call succeeds only
\* if the record's communication_kind and its communication_reference both
\* equal the expected ones; otherwise it returns a NOT_FOUND error and no URI.
C1_BothMustMatch ==
    \A c \in DOMAIN call :
        (call[c].fn = "chariott" /\ Answered(c) /\ IsSome(registry)) =>
            /\ Outcome(c).ok =
                  /\ registry[1].communication_kind = call[c].args.communication_kind
                  /\ registry[1].communication_reference = call[c].args.communication_reference
            /\ ~Outcome(c).ok => Outcome(c).err.code = "NotFound"

\* C2: when at least one endpoint qualifies, the endpoint returned is the
\* qualifying endpoint with the smallest index of the list.
C2_FirstMatch ==
    \A c \in DOMAIN call :
        (call[c].fn = "ibeji" /\ Answered(c) /\ IsSome(directory)) =>
            LET Q == Qualifying(directory[1], call[c].args)
            IN  (Q # {} /\ Outcome(c).ok) =>
                    FromEntry(Outcome(c).value, directory[1][First(Q)])

\* Two different endpoints qualify, and the call has returned an endpoint.
C2_Witness ==
    \E c \in DOMAIN call :
        /\ call[c].fn = "ibeji" /\ Answered(c) /\ IsSome(directory)
        /\ Outcome(c).ok
        /\ Cardinality(Qualifying(directory[1], call[c].args)) >= 2
        /\ directory[1][1] # directory[1][2]
        /\ Outcome(c).value.uri # directory[1][1].uri

\* C3: a successful result has the requested protocol and holds every
\* requested operation; it is a copy of one entry of the endpoint list whose
\* only changed field is the URI, which is the normalizer's output for the
\* entry's URI.
C3_ResultMeetsRequest ==
    \A c \in DOMAIN call :
        (call[c].fn = "ibeji" /\ Done(c) /\ Outcome(c).ok) =>
            /\ Answered(c) /\ IsSome(directory)
            /\ Outcome(c).value.protocol = call[c].args.protocol
            /\ \A i \in DOMAIN call[c].args.operations :
                  \E j \in DOMAIN Outcome(c).value.operations :
                      Outcome(c).value.operations[j] = call[c].args.operations[i]
            /\ \E k \in DOMAIN directory[1] : FromEntry(Outcome(c).value, directory[1][k])

\* The request repeats an operation and orders its operations unlike the
\* endpoint, the endpoint of the other protocol comes first, and the URI of the
\* result has been rewritten.
C3_Witness ==
    \E c \in DOMAIN call :
        /\ call[c].fn = "ibeji" /\ Done(c) /\ Outcome(c).ok
        /\ call[c].args.operations = <<"set", "get">>
        /\ Len(directory[1]) = 2
        /\ directory[1][1].protocol # call[c].args.protocol
        /\ Outcome(c).value.uri # directory[1][2].uri

\* C5: once the connect and find_by_id have succeeded, the call fails with
\* "Did not find the entity" exactly when the response has no
\* entity_access_info, and with "Did not find an endpoint that met our
\* requirements" exactly when entity_access_info is there and no endpoint of
\* its list (none at all, if it is empty) qualifies; this in every build and
\* environment of the normalizer.
C5_NotFoundErrors ==
    \A c \in DOMAIN call :
        (call[c].fn = "ibeji" /\ Answered(c)) =>
            /\ (~Outcome(c).ok /\ Outcome(c).err.fmt = "Did not find the entity")
                  = ~IsSome(directory)
            /\ (~Outcome(c).ok /\ Outcome(c).err.fmt
                                    = "Did not find an endpoint that met our requirements")
                  = (IsSome(directory) /\ Qualifying(directory[1], call[c].args) = {})

\* The entity has endpoints of the requested protocol, none with the requested
\* operations, in a containerized build whose environment lacks a variable.
C5_Witness ==
    \E c \in DOMAIN call :
        /\ call[c].fn = "ibeji" /\ Answered(c) /\ IsSome(directory)
        /\ containerize /\ Missing # {}
        /\ Len(directory[1]) = 2
        /\ \A i \in DOMAIN directory[1] : directory[1][i].protocol = call[c].args.protocol
        /\ ~Outcome(c).ok
        /\ Outcome(c).err.fmt = "Did not find an endpoint that met our requirements"

\* C8: in a containerized build whose environment lacks the gateway or the
\* alias variable, get_uri fails with FAILED_PRECONDITION and a message that
\* names a variable that is missing; the resolver that has found a match then
\* returns an error that wraps this failure, and no endpoint.
C8_MissingVariable ==
    (containerize /\ Missing # {}) =>
        /\ Len(uri_res) >= 1 =>
              /\ ~uri_res[1].ok
              /\ uri_res[1].err.code = "FailedPrecondition"
              /\ uri_res[1].err.message.args[1] \in Missing
        /\ \A c \in DOMAIN call :
              ( /\ call[c].fn = "ibeji" /\ Answered(c) /\ IsSome(directory)
                /\ Qualifying(directory[1], call[c].args) # {} ) =>
                    /\ ~Outcome(c).ok
                    /\ Outcome(c).err.fmt = "Failed to get provider URI due to error: {}"
                    /\ Outcome(c).err.args[1] = "FailedPrecondition"
                    /\ Outcome(c).err.args[3] \in Missing

\* Only the alias is missing, an endpoint matches, and the resolver has returned.
C8_Witness ==
    \E c \in DOMAIN call :
        /\ containerize
        /\ Missing = {host_alias_env_var}
        /\ call[c].fn = "ibeji" /\ Answered(c) /\ IsSome(directory)
        /\ Qualifying(directory[1], call[c].args) # {}
        /\ ~Outcome(c).ok
        /\ host_alias_env_var \in Range(Outcome(c).err.args)

\* C10: every NOT_FOUND error of discover_service_using_chariott carries the
\* requested namespace, name and version, and both not-found errors of
\* discover_digital_twin_provider_using_ibeji carry the requested entity id.
C10_MessagesCarryRequest ==
    \A c \in DOMAIN call :
        Done(c) =>
            /\ (call[c].fn = "chariott" /\ ~Outcome(c).ok /\ Outcome(c).err.code = "NotFound") =>
                  {call[c].args.namespace, call[c].args.name, call[c].args.version}
                      \subseteq Range(Outcome(c).err.message.args)
            /\ (call[c].fn = "ibeji" /\ Answered(c) /\ ~Outcome(c).ok
                  /\ Outcome(c).err.fmt \in {"Did not find the entity",
                                            "Did not find an endpoint that met our requirements"}) =>
                  call[c].args.entity_id \in Range(Outcome(c).err.args)

\* The network steps of a call: nothing, a connect, or a successful connect
\* and then the one RPC of its resolver.
NetworkStepsInOrder(c) ==
    /\ Len(call[c].net) <= 2
    /\ Len(call[c].net) >= 1 => call[c].net[1].op = "connect"
    /\ Len(call[c].net) = 2 =>
          /\ call[c].net[1].ok
          /\ call[c].net[2].op = IF call[c].fn = "chariott" THEN "discover" ELSE "find_by_id"

\* A failed network step is the call's last, and the call has ended with an error.
FailureIsFinal(c) ==
    \A i \in DOMAIN call[c].net :
        ~call[c].net[i].ok =>
            /\ i = Len(call[c].net)
            /\ Done(c)
            /\ IsSome(call[c].result) /\ ~Outcome(c).ok

C9_State ==
    /\ \A c \in DOMAIN call :
          /\ NetworkStepsInOrder(c)
          /\ FailureIsFinal(c)
          /\ Done(c) = IsSome(call[c].result)
    /\ \A c, d \in DOMAIN call :
          ( /\ Done(c) /\ Done(d)
            /\ call[c].fn = call[d].fn
            /\ call[c].args = call[d].args
            /\ call[c].net = call[d].net ) => call[c].result = call[d].result

\* A step is a step of one call, and a call that has ended takes no further step.
C9_Step ==
    /\ \A c \in DOMAIN call : Done(c) => call'[c] = call[c]
    /\ \A c, d \in DOMAIN call : (call'[c] # call[c] /\ call'[d] # call[d]) => c = d
    /\ \A c \in DOMAIN call :
          Len(call'[c].net) > Len(call[c].net) => ~IsSome(call[c].result)

\* C9: a resolver call makes at most one connect attempt and then at most one
\* unary RPC, the RPC only after the connect succeeded; after a failure it
\* takes no further network step and ends with that error, without retry; and
\* calls in flight together do not change each other: what a call returns is
\* fixed by its own arguments and its own network steps.
C9_SingleShot == []C9_State /\ [][C9_Step]_vars

\* Two calls with the same arguments have ended, one at its failed connect, the
\* other with a URI or an endpoint.
C9_Witness ==
    \E c, d \in DOMAIN call :
        /\ c # d
        /\ call[c].fn = call[d].fn /\ call[c].args = call[d].args
        /\ Done(c) /\ Len(call[c].net) = 1 /\ ~Outcome(c).ok
        /\ Done(d) /\ Len(call[d].net) = 2 /\ Outcome(d).ok

====
